---- MODULE Spec2Model ----
(***************************************************************************)
(* Model of xtask/src/codegen.rs: the file synchronisation helper `update`,*)
(* the comment-block scanner `do_extract_comment_blocks` with its two      *)
(* callers, and `reformat`.                                                *)
(* Strings are modelled as sequences of one-character strings.             *)
(***************************************************************************)
EXTENDS Integers, Sequences, FiniteSets, TLC

VARIABLES
    disk,          \* the target path on the filesystem
    pc,            \* position of each thread inside update
    contents,      \* argument `contents` of the thread's current call
    mode,          \* argument `mode` of the thread's current call
    return_error,  \* local `return_error` of the thread's current call
    result,        \* value returned by the thread's current call
    wrote,         \* successful write_file calls of the thread's current call
    pre,           \* the target as it was when the current call was made
    prev,          \* record of the thread's previous, completed call
    text,          \* argument `text` of do_extract_comment_blocks
    lines,         \* local `lines`: the lines of text, each trimmed at the start
    scan_pc,       \* position of the scan, per value of the flag
    line_num,      \* index of the next line of the loop, per value of the flag
    block,         \* local `block` = (start line, contents), per value of the flag
    res,           \* local `res`, the blocks emitted so far, per value of the flag
    tag,           \* argument `tag` of extract_comment_blocks_with_empty_lines
    tag_pc,        \* position inside extract_comment_blocks_with_empty_lines
    blk_idx,       \* blocks of the scan its `for` loop has consumed
    tagged_res,    \* its local `res`, the CommentBlocks collected so far
    fmt_text,      \* argument `text` of reformat
    fmt_pc,        \* position inside reformat
    fmt_stdout,    \* local `stdout` of reformat
    fmt_result     \* value returned by reformat

\* the variables of update, of do_extract_comment_blocks, of
\* extract_comment_blocks_with_empty_lines and of reformat
syncVars == <<disk, pc, contents, mode, return_error, result, wrote, pre, prev>>
scanVars == <<text, lines, scan_pc, line_num, block, res>>
tagVars == <<tag, tag_pc, blk_idx, tagged_res>>
fmtVars == <<fmt_text, fmt_pc, fmt_stdout, fmt_result>>
vars == <<syncVars, scanVars, tagVars, fmtVars>>

\* ---------------------------------------------------------------- bounds
MaxLen == 2        \* longest file content / generated content
MaxLines == 3      \* most lines of a scanned document

\* threads that may call update; the sequential specification uses Main only
Threads == {"A", "B"}
Main == "A"

\* characters of file contents: the two line-ending bytes; a "\r" that is not
\* followed by "\n" is an ordinary character for normalize
SyncChars == {"\r", "\n"}

RECURSIVE StringsOfLen(_, _)
StringsOfLen(S, n) ==
    IF n = 0 THEN {<<>>}
    ELSE {<<ch>> \o s : ch \in S, s \in StringsOfLen(S, n - 1)}

StringsUpTo(S, n) == UNION {StringsOfLen(S, k) : k \in 0..n}

Texts == StringsUpTo(SyncChars, MaxLen)

\* ---------------------------------------------------------------- Mode
Mode == {"Overwrite", "Ensure"}

\* ---------------------------------------------------------------- filesystem
\* A path either holds no file, or a file with bytes; a file may be
\* unreadable (permissions), in which case read_file fails with an error
\* other than "not found".
Missing == [exists |-> FALSE, readable |-> TRUE, bytes |-> <<>>]

File(b, r) == [exists |-> TRUE, readable |-> r, bytes |-> b]

DiskStates == {Missing} \cup {File(b, r) : b \in Texts, r \in BOOLEAN}

\* xshell::read_file: Ok(String) or Err
read_file(d) ==
    IF ~d.exists THEN [ok |-> FALSE, err |-> "NotFound", val |-> <<>>]
    ELSE IF ~d.readable THEN [ok |-> FALSE, err |-> "Other", val |-> <<>>]
    ELSE [ok |-> TRUE, err |-> "none", val |-> d.bytes]

\* a write that overwrites from offset 0 without truncating the old bytes
write_file_NoTruncate(d, c) ==
    [exists |-> TRUE, readable |-> (IF d.exists THEN d.readable ELSE TRUE),
     bytes |-> c \o SubSeq(d.bytes, Len(c) + 1, Len(d.bytes))]

\* xshell::write_file on success: creates or truncates, then holds `c`
write_file(d, c) ==
    [exists |-> TRUE, readable |-> (IF d.exists THEN d.readable ELSE TRUE), bytes |-> c]

\* outcomes of a failed write_file: the open failed (nothing changed) or the
\* file was created/truncated and only a proper prefix of `c` reached it
write_file_failed(d, c) ==
    {d} \cup {write_file(d, SubSeq(c, 1, k)) : k \in 0..(Len(c) - 1)}

\* ---------------------------------------------------------------- update
\* s.replace("\r\n", "\n")
RECURSIVE normalize(_)
normalize(s) ==
    IF Len(s) = 0 THEN <<>>
    ELSE IF Len(s) >= 2 /\ s[1] = "\r" /\ s[2] = "\n"
         THEN <<"\n">> \o normalize(SubSeq(s, 3, Len(s)))
         ELSE <<s[1]>> \o normalize(SubSeq(s, 2, Len(s)))

\* the comparison with only the old contents normalized
UpToDate_OneSided(r, c) == r.ok /\ normalize(r.val) = c

\* the comparison without any normalization
UpToDate_Exact(r, c) == r.ok /\ r.val = c

\* the first match arm: Ok(old_contents) if normalize(old) == normalize(new)
UpToDate(r, c) == r.ok /\ normalize(r.val) = normalize(c)

\* the two arms swapped
ReturnError_Swapped(m) == m = "Overwrite"

\* the error raised for every mode
ReturnError_Always(m) == m \in Mode

\* match mode { Overwrite => false, Ensure => true }
ReturnError(m) == m = "Ensure"

\* ---------------------------------------------------------------- text helpers
\* char::is_whitespace, for the characters that occur
IsWhitespace(ch) == ch \in {" ", "\t", "\r", "\n"}

\* str::starts_with
starts_with(s, p) == Len(s) >= Len(p) /\ SubSeq(s, 1, Len(p)) = p

\* str::trim_start
RECURSIVE trim_start(_)
trim_start(s) ==
    IF Len(s) > 0 /\ IsWhitespace(s[1]) THEN trim_start(Tail(s)) ELSE s

\* position of the first "\n" of s, 0 when there is none
RECURSIVE FindNewline(_, _)
FindNewline(s, i) ==
    IF i > Len(s) THEN 0 ELSE IF s[i] = "\n" THEN i ELSE FindNewline(s, i + 1)

\* a line loses the "\r" of its "\r\n" terminator
StripCR(l) ==
    IF Len(l) > 0 /\ l[Len(l)] = "\r" THEN SubSeq(l, 1, Len(l) - 1) ELSE l

\* str::lines: split at "\n" or "\r\n"; no empty last line after a final
\* terminator
RECURSIVE str_lines(_)
str_lines(s) ==
    IF Len(s) = 0 THEN <<>>
    ELSE LET i == FindNewline(s, 1) IN
         IF i = 0 THEN <<s>>
         ELSE <<StripCR(SubSeq(s, 1, i - 1))>> \o str_lines(SubSeq(s, i + 1, Len(s)))

\* ---------------------------------------------------------------- documents
\* let prefix = "// ";  and the bare marker compared with `line == "//"`
prefix == <<"/", "/", " ">>
BareMarker == <<"/", "/">>

\* the lines documents are made of
LineSamples ==
    { <<"/", "/", " ", "a">>,            \* comment line
      <<" ", "/", "/", " ", "b">>,       \* indented comment line
      <<"/", "/", " ">>,                 \* comment line with empty content
      <<"/", "/", " ", "a", "\r">>,      \* comment line of a "\r\n" document
      <<"/", "/">>,                      \* bare marker
      <<"\t", "/", "/">>,                \* indented bare marker
      <<"/", "/", "a">>,                 \* marker without the space: code
      <<"x">>,                           \* code
      <<>> }                             \* empty line

RECURSIVE SeqsOfLen(_, _)
SeqsOfLen(S, n) ==
    IF n = 0 THEN {<<>>}
    ELSE {<<x>> \o q : x \in S, q \in SeqsOfLen(S, n - 1)}

\* the lines joined by "\n", with or without a final "\n"
RECURSIVE JoinLines(_, _)
JoinLines(ls, final) ==
    IF Len(ls) = 0 THEN <<>>
    ELSE IF Len(ls) = 1 THEN ls[1] \o (IF final THEN <<"\n">> ELSE <<>>)
    ELSE ls[1] \o <<"\n">> \o JoinLines(Tail(ls), final)

\* a "\r" only occurs directly before a "\n"
WellTerminated(s) == Len(s) = 0 \/ s[Len(s)] # "\r"

Documents ==
    {d \in {JoinLines(ls, final) :
               ls \in UNION {SeqsOfLen(LineSamples, n) : n \in 0..MaxLines},
               final \in BOOLEAN} : WellTerminated(d)}

\* ---------------------------------------------------------------- do_extract_comment_blocks
\* text.lines().map(str::trim_start)
TrimmedLines(s) ==
    LET ls == str_lines(s) IN [i \in 1..Len(ls) |-> trim_start(ls[i])]

\* the line of the current iteration, for scan f
Line(f) == lines[line_num[f] + 1]

\* scan f is in an iteration of `for (line_num, line) in lines.enumerate()`;
\* the scan with the flag set is run after the scan without it
InLoop(f) ==
    /\ scan_pc[f] = "loop"
    /\ line_num[f] < Len(lines)
    /\ f => scan_pc[FALSE] # "loop"

\* the flag is not consulted
IsBare_AnyFlag(line, allow_blocks_with_empty_lines) ==
    line = BareMarker

\* line == "//" && allow_blocks_with_empty_lines
IsBare(line, allow_blocks_with_empty_lines) ==
    line = BareMarker /\ allow_blocks_with_empty_lines

\* let is_comment = line.starts_with(prefix)
is_comment(line) == starts_with(line, prefix)

\* line[prefix.len()..]
StripPrefix(line) == SubSeq(line, Len(prefix) + 1, Len(line))

\* the block is pushed without the emptiness test
Flush_Always(r, b) == Append(r, b)

\* if !block.1.is_empty() { res.push(..) }
Flush(r, b) == IF b[2] # <<>> THEN Append(r, b) ELSE r

\* let mut block = (0, vec![])
EmptyBlock == <<0, <<>>>>

\* the bare marker replaces the block's contents instead of extending them
LoopBare_Clear(f) ==
    /\ InLoop(f)
    /\ IsBare(Line(f), f)
    /\ block' = [block EXCEPT ![f] = <<@[1], <<<<>>>>>>]
    /\ line_num' = [line_num EXCEPT ![f] = @ + 1]
    /\ UNCHANGED <<text, lines, scan_pc, res, syncVars, tagVars, fmtVars>>

\* a bare marker is pushed only into a block that has been started
LoopBare_SkipLeading(f) ==
    /\ InLoop(f)
    /\ IsBare(Line(f), f)
    /\ block' = [block EXCEPT ![f] =
                    IF @[2] = <<>> THEN @ ELSE <<@[1], Append(@[2], <<>>)>>]
    /\ line_num' = [line_num EXCEPT ![f] = @ + 1]
    /\ UNCHANGED <<text, lines, scan_pc, res, syncVars, tagVars, fmtVars>>

\* block.1.push(String::new()); continue
LoopBare(f) ==
    /\ InLoop(f)
    /\ IsBare(Line(f), f)
    /\ block' = [block EXCEPT ![f] = <<@[1], Append(@[2], <<>>)>>]
    /\ line_num' = [line_num EXCEPT ![f] = @ + 1]
    /\ UNCHANGED <<text, lines, scan_pc, res, syncVars, tagVars, fmtVars>>

\* block.1.push(line[prefix.len()..].to_string())
LoopComment(f) ==
    /\ InLoop(f)
    /\ ~IsBare(Line(f), f)
    /\ is_comment(Line(f))
    /\ block' = [block EXCEPT ![f] = <<@[1], Append(@[2], StripPrefix(Line(f)))>>]
    /\ line_num' = [line_num EXCEPT ![f] = @ + 1]
    /\ UNCHANGED <<text, lines, scan_pc, res, syncVars, tagVars, fmtVars>>

\* res.push(mem::take(&mut block)) if non-empty; block.0 = line_num + 2
LoopOther(f) ==
    /\ InLoop(f)
    /\ ~IsBare(Line(f), f)
    /\ ~is_comment(Line(f))
    /\ res' = [res EXCEPT ![f] = Flush(@, block[f])]
    /\ block' = [block EXCEPT ![f] = <<line_num[f] + 2, <<>>>>]
    /\ line_num' = [line_num EXCEPT ![f] = @ + 1]
    /\ UNCHANGED <<text, lines, scan_pc, syncVars, tagVars, fmtVars>>

\* the pending block is not flushed after the loop
LoopEnd_NoFlush(f) ==
    /\ scan_pc[f] = "loop"
    /\ line_num[f] = Len(lines)
    /\ f => scan_pc[FALSE] # "loop"
    /\ scan_pc' = [scan_pc EXCEPT ![f] = "done"]
    /\ UNCHANGED <<text, lines, line_num, block, res, syncVars, tagVars, fmtVars>>

\* after the loop: if !block.1.is_empty() { res.push(block) }; res
LoopEnd(f) ==
    /\ scan_pc[f] = "loop"
    /\ line_num[f] = Len(lines)
    /\ f => scan_pc[FALSE] # "loop"
    /\ res' = [res EXCEPT ![f] = Flush(@, block[f])]
    /\ scan_pc' = [scan_pc EXCEPT ![f] = "done"]
    /\ UNCHANGED <<text, lines, line_num, block, syncVars, tagVars, fmtVars>>

\* the locals of do_extract_comment_blocks when the loop is entered
ScanInit ==
    /\ lines = TrimmedLines(text)
    /\ scan_pc = [f \in BOOLEAN |-> "loop"]
    /\ line_num = [f \in BOOLEAN |-> 0]
    /\ block = [f \in BOOLEAN |-> EmptyBlock]
    /\ res = [f \in BOOLEAN |-> <<>>]

\* do_extract_comment_blocks is not running
ScanIdle ==
    /\ text = <<>>
    /\ lines = <<>>
    /\ scan_pc = [f \in BOOLEAN |-> "idle"]
    /\ line_num = [f \in BOOLEAN |-> 0]
    /\ block = [f \in BOOLEAN |-> EmptyBlock]
    /\ res = [f \in BOOLEAN |-> <<>>]

\* ---------------------------------------------------------------- extract_comment_blocks
\* do_extract_comment_blocks(text, false) with the line numbers mapped away
extract_comment_blocks == [k \in 1..Len(res[FALSE]) |-> res[FALSE][k][2]]

\* ---------------------------------------------------------------- extract_comment_blocks_with_empty_lines
\* char::is_uppercase, for the characters that occur
is_uppercase(ch) == ch \in {"T", "U"}

\* tag.starts_with(char::is_uppercase)
StartsUppercase(tg) == Len(tg) > 0 /\ is_uppercase(tg[1])

\* let tag = format!("{}:", tag)
TagColon(tg) == tg \o <<":">>

\* str::trim_end
RECURSIVE trim_end(_)
trim_end(s) ==
    IF Len(s) > 0 /\ IsWhitespace(s[Len(s)])
    THEN trim_end(SubSeq(s, 1, Len(s) - 1)) ELSE s

\* str::trim
trim(s) == trim_end(trim_start(s))

\* the tags the parser is called with: two valid ones, a lowercase one, ""
Tags == { <<"T">>, <<"U">>, <<"t">>, <<>> }

\* the lines the documents given to the parser are made of
TaggedLineSamples ==
    { <<"/", "/", " ", "T", ":", " ", "i", " ">>,  \* "T: i " : tag T, id i
      <<" ", "/", "/", " ", "T", ":", "i">>,       \* "T:i"   : tag T, id i
      <<"/", "/", " ", "U", ":", " ", "i">>,       \* "U: i"  : tag U, id i
      <<"/", "/", " ", "a">>,                      \* comment line
      <<"/", "/">>,                                \* bare marker
      <<"x">> }                                    \* code

TaggedDocuments ==
    {JoinLines(ls, final) :
        ls \in UNION {SeqsOfLen(TaggedLineSamples, n) : n \in 0..MaxLines},
        final \in BOOLEAN}

\* the block of the current iteration of
\* `for (line, mut block) in do_extract_comment_blocks(text, true)`
CurBlock == res[TRUE][blk_idx + 1]

InFilter ==
    /\ tag_pc = "scan"
    /\ scan_pc[TRUE] = "done"
    /\ blk_idx < Len(res[TRUE])

\* first.starts_with(&tag), for a block that has a first line
FirstMatches(b, tg) == Len(b[2]) > 0 /\ starts_with(b[2][1], TagColon(tg))

\* first[tag.len()..].trim().to_string()
IdOf(fst, tg) == trim(SubSeq(fst, Len(TagColon(tg)) + 1, Len(fst)))

\* CommentBlock { id, line, contents: block } after block.remove(0)
CommentBlock(b, tg) ==
    [id |-> IdOf(b[2][1], tg), line |-> b[1], contents |-> Tail(b[2])]

\* the tag is not checked
AssertPass_Unchecked ==
    /\ tag_pc = "assert"
    /\ tag_pc' = "scan"
    /\ UNCHANGED <<tag, blk_idx, tagged_res, syncVars, scanVars, fmtVars>>

\* assert!(tag.starts_with(char::is_uppercase)) holds
AssertPass ==
    /\ tag_pc = "assert"
    /\ StartsUppercase(tag)
    /\ tag_pc' = "scan"
    /\ UNCHANGED <<tag, blk_idx, tagged_res, syncVars, scanVars, fmtVars>>

\* assert!(tag.starts_with(char::is_uppercase)) panics
AssertFail ==
    /\ tag_pc = "assert"
    /\ ~StartsUppercase(tag)
    /\ tag_pc' = "assert_failed"
    /\ UNCHANGED <<tag, blk_idx, tagged_res, syncVars, scanVars, fmtVars>>

\* the call do_extract_comment_blocks(text, true), made after the assert
TaggedScan(step) == tag_pc = "scan" /\ step

\* a block whose id was already collected is not pushed again
FilterMatch_Dedup ==
    /\ InFilter
    /\ FirstMatches(CurBlock, tag)
    /\ tagged_res' =
          IF \E j \in 1..Len(tagged_res) :
                 tagged_res[j].id = CommentBlock(CurBlock, tag).id
          THEN tagged_res
          ELSE Append(tagged_res, CommentBlock(CurBlock, tag))
    /\ blk_idx' = blk_idx + 1
    /\ UNCHANGED <<tag, tag_pc, syncVars, scanVars, fmtVars>>

\* the marker line is left in the contents (block.remove(0) replaced by a
\* look at block[0])
FilterMatch_KeepFirst ==
    /\ InFilter
    /\ FirstMatches(CurBlock, tag)
    /\ tagged_res' = Append(tagged_res,
           [CommentBlock(CurBlock, tag) EXCEPT !.contents = CurBlock[2]])
    /\ blk_idx' = blk_idx + 1
    /\ UNCHANGED <<tag, tag_pc, syncVars, scanVars, fmtVars>>

\* the block's first line carries the tag: res.push(CommentBlock { .. })
FilterMatch ==
    /\ InFilter
    /\ FirstMatches(CurBlock, tag)
    /\ tagged_res' = Append(tagged_res, CommentBlock(CurBlock, tag))
    /\ blk_idx' = blk_idx + 1
    /\ UNCHANGED <<tag, tag_pc, syncVars, scanVars, fmtVars>>

\* block.remove(0) panics on an empty block; a first line without the tag
\* drops the block
FilterSkip ==
    /\ InFilter
    /\ ~FirstMatches(CurBlock, tag)
    /\ IF CurBlock[2] = <<>>
       THEN tag_pc' = "remove_failed" /\ UNCHANGED blk_idx
       ELSE blk_idx' = blk_idx + 1 /\ UNCHANGED tag_pc
    /\ UNCHANGED <<tag, tagged_res, syncVars, scanVars, fmtVars>>

\* the loop is over: res is returned
FilterEnd ==
    /\ tag_pc = "scan"
    /\ scan_pc[TRUE] = "done"
    /\ blk_idx = Len(res[TRUE])
    /\ tag_pc' = "done"
    /\ UNCHANGED <<tag, blk_idx, tagged_res, syncVars, scanVars, fmtVars>>

\* extract_comment_blocks_with_empty_lines is not running
TagIdle ==
    /\ tag = <<>>
    /\ tag_pc = "idle"
    /\ blk_idx = 0
    /\ tagged_res = <<>>

\* ---------------------------------------------------------------- reformat
\* the grave accent U+0060, which a string literal here cannot hold
Grave == "grave"

\* const PREAMBLE
PREAMBLE ==
    <<"G", "e", "n", "e", "r", "a", "t", "e", "d", " ", "f", "i", "l", "e", ",",
      " ", "d", "o", " ", "n", "o", "t", " ", "e", "d", "i", "t", " ", "b", "y",
      " ", "h", "a", "n", "d", ",", " ", "s", "e", "e", " ", Grave, "x", "t", "a",
      "s", "k", "/", "s", "r", "c", "/", "c", "o", "d", "e", "g", "e", "n", Grave>>

\* characters of the text given to rustfmt and of what it prints
FmtChars == {"a", "\n"}

FmtTexts == StringsUpTo(FmtChars, MaxLen)

\* Result<String>
FmtOk(s) == [ok |-> TRUE, err |-> "none", val |-> s]
FmtErr(e) == [ok |-> FALSE, err |-> e, val |-> <<>>]
NoResult == [ok |-> FALSE, err |-> "pending", val |-> <<>>]

\* the blank line after the preamble is missing
FormatOutput_NoBlankLine(stdout) ==
    <<"/", "/", "!", " ">> \o PREAMBLE \o <<"\n">> \o stdout \o <<"\n">>

\* format!("//! {}\n\n{}\n", PREAMBLE, stdout)
FormatOutput(stdout) ==
    <<"/", "/", "!", " ">> \o PREAMBLE \o <<"\n", "\n">> \o stdout \o <<"\n">>

\* ensure_rustfmt()? succeeds
EnsureRustfmtOk ==
    /\ fmt_pc = "ensure_rustfmt"
    /\ fmt_pc' = "rustfmt"
    /\ UNCHANGED <<fmt_text, fmt_stdout, fmt_result, syncVars, scanVars, tagVars>>

\* ensure_rustfmt()? returns the error
EnsureRustfmtFail ==
    /\ fmt_pc = "ensure_rustfmt"
    /\ fmt_result' = FmtErr("ensure_rustfmt")
    /\ fmt_pc' = "done"
    /\ UNCHANGED <<fmt_text, fmt_stdout, syncVars, scanVars, tagVars>>

\* cmd!("rustfmt ..").stdin(text).read()? succeeds: rustfmt printed `out`
RustfmtOk ==
    /\ fmt_pc = "rustfmt"
    /\ \E out \in FmtTexts : fmt_stdout' = out
    /\ fmt_pc' = "format"
    /\ UNCHANGED <<fmt_text, fmt_result, syncVars, scanVars, tagVars>>

\* cmd!("rustfmt ..").stdin(text).read()? returns the error
RustfmtFail ==
    /\ fmt_pc = "rustfmt"
    /\ fmt_result' = FmtErr("rustfmt")
    /\ fmt_pc' = "done"
    /\ UNCHANGED <<fmt_text, fmt_stdout, syncVars, scanVars, tagVars>>

\* Ok(format!("//! {}\n\n{}\n", PREAMBLE, stdout))
FormatReturn ==
    /\ fmt_pc = "format"
    /\ fmt_result' = FmtOk(FormatOutput(fmt_stdout))
    /\ fmt_pc' = "done"
    /\ UNCHANGED <<fmt_text, fmt_stdout, syncVars, scanVars, tagVars>>

\* reformat is not running
FmtIdle ==
    /\ fmt_text = <<>>
    /\ fmt_pc = "idle"
    /\ fmt_stdout = <<>>
    /\ fmt_result = NoResult

\* ---------------------------------------------------------------- specifications
\* what is remembered of a completed call
NoCall == [valid |-> FALSE, contents |-> <<>>, mode |-> "Overwrite",
           result |-> "none", wrote |-> 0, pre |-> Missing, post |-> Missing]

CallRecord(t) ==
    [valid |-> TRUE, contents |-> contents[t], mode |-> mode[t],
     result |-> result[t], wrote |-> wrote[t], pre |-> pre[t], post |-> disk]

Init ==
    /\ disk \in DiskStates
    /\ pc = [t \in Threads |-> "idle"]
    /\ contents = [t \in Threads |-> <<>>]
    /\ mode = [t \in Threads |-> "Overwrite"]
    /\ return_error = [t \in Threads |-> FALSE]
    /\ result = [t \in Threads |-> "none"]
    /\ wrote = [t \in Threads |-> 0]
    /\ pre = [t \in Threads |-> Missing]
    /\ prev = [t \in Threads |-> NoCall]
    /\ text = <<>>
    /\ ScanInit
    /\ TagIdle
    /\ FmtIdle

\* update(path, c, m) is called, directly after the thread's previous call
\* (if any) has returned
Call(t) ==
    /\ pc[t] \in {"idle", "done"}
    /\ \E c \in Texts, m \in Mode :
         /\ contents' = [contents EXCEPT ![t] = c]
         /\ mode' = [mode EXCEPT ![t] = m]
    /\ prev' = [prev EXCEPT ![t] = IF pc[t] = "done" THEN CallRecord(t) ELSE @]
    /\ pc' = [pc EXCEPT ![t] = "read"]
    /\ pre' = [pre EXCEPT ![t] = disk]
    /\ return_error' = [return_error EXCEPT ![t] = FALSE]
    /\ result' = [result EXCEPT ![t] = "none"]
    /\ wrote' = [wrote EXCEPT ![t] = 0]
    /\ UNCHANGED <<disk, scanVars, tagVars, fmtVars>>

\* match read_file(path): up to date, return Ok(())
ReadUpToDate(t) ==
    /\ pc[t] = "read"
    /\ UpToDate(read_file(disk), contents[t])
    /\ result' = [result EXCEPT ![t] = "Ok"]
    /\ pc' = [pc EXCEPT ![t] = "done"]
    /\ UNCHANGED <<disk, contents, mode, return_error, wrote, pre, prev, scanVars, tagVars, fmtVars>>

\* Ensure bails out as soon as the file is found stale, before the write
ReadFallThrough_BailFirst(t) ==
    /\ pc[t] = "read"
    /\ ~UpToDate(read_file(disk), contents[t])
    /\ return_error' = [return_error EXCEPT ![t] = ReturnError(mode[t])]
    /\ IF ReturnError(mode[t])
       THEN /\ pc' = [pc EXCEPT ![t] = "done"]
            /\ result' = [result EXCEPT ![t] = "Stale"]
       ELSE /\ pc' = [pc EXCEPT ![t] = "write"]
            /\ UNCHANGED result
    /\ UNCHANGED <<disk, contents, mode, wrote, pre, prev, scanVars, tagVars, fmtVars>>

\* a read error other than "not found" is propagated with `?`
ReadFallThrough_Propagate(t) ==
    /\ pc[t] = "read"
    /\ ~UpToDate(read_file(disk), contents[t])
    /\ return_error' = [return_error EXCEPT ![t] = ReturnError(mode[t])]
    /\ IF read_file(disk).err = "Other"
       THEN /\ pc' = [pc EXCEPT ![t] = "done"]
            /\ result' = [result EXCEPT ![t] = "FsError"]
       ELSE /\ pc' = [pc EXCEPT ![t] = "write"]
            /\ UNCHANGED result
    /\ UNCHANGED <<disk, contents, mode, wrote, pre, prev, scanVars, tagVars, fmtVars>>

\* match read_file(path): `_ => ()`, then return_error is computed
ReadFallThrough(t) ==
    /\ pc[t] = "read"
    /\ ~UpToDate(read_file(disk), contents[t])
    /\ return_error' = [return_error EXCEPT ![t] = ReturnError(mode[t])]
    /\ pc' = [pc EXCEPT ![t] = "write"]
    /\ UNCHANGED <<disk, contents, mode, result, wrote, pre, prev, scanVars, tagVars, fmtVars>>

\* the write is skipped when the target changed since the call was made
Write_UnlessChanged(t) ==
    /\ pc[t] = "write"
    /\ disk' = IF disk = pre[t] THEN write_file(disk, contents[t]) ELSE disk
    /\ wrote' = [wrote EXCEPT ![t] = @ + 1]
    /\ pc' = [pc EXCEPT ![t] = "return"]
    /\ UNCHANGED <<contents, mode, return_error, result, pre, prev, scanVars, tagVars, fmtVars>>

\* write_file(path, contents)? succeeds
Write(t) ==
    /\ pc[t] = "write"
    /\ disk' = write_file(disk, contents[t])
    /\ wrote' = [wrote EXCEPT ![t] = @ + 1]
    /\ pc' = [pc EXCEPT ![t] = "return"]
    /\ UNCHANGED <<contents, mode, return_error, result, pre, prev, scanVars, tagVars, fmtVars>>

\* write_file(path, contents)? fails and the error is returned
WriteFail(t) ==
    /\ pc[t] = "write"
    /\ disk' \in write_file_failed(disk, contents[t])
    /\ result' = [result EXCEPT ![t] = "FsError"]
    /\ pc' = [pc EXCEPT ![t] = "done"]
    /\ UNCHANGED <<contents, mode, return_error, wrote, pre, prev, scanVars, tagVars, fmtVars>>

\* return if return_error { bail!(..) } else { Ok(()) }
Return(t) ==
    /\ pc[t] = "return"
    /\ result' = [result EXCEPT ![t] = IF return_error[t] THEN "Stale" ELSE "Ok"]
    /\ pc' = [pc EXCEPT ![t] = "done"]
    /\ UNCHANGED <<disk, contents, mode, return_error, wrote, pre, prev, scanVars, tagVars, fmtVars>>

\* one thread calling update again and again, each call after the last returned
Next ==
    \/ Call(Main)
    \/ ReadUpToDate(Main)
    \/ ReadFallThrough(Main)
    \/ Write(Main)
    \/ WriteFail(Main)
    \/ Return(Main)

Spec == Init /\ [][Next]_vars

\* the same document scanned by do_extract_comment_blocks(text, false) and by
\* do_extract_comment_blocks(text, true)
InitScan ==
    /\ disk = Missing
    /\ pc = [t \in Threads |-> "idle"]
    /\ contents = [t \in Threads |-> <<>>]
    /\ mode = [t \in Threads |-> "Overwrite"]
    /\ return_error = [t \in Threads |-> FALSE]
    /\ result = [t \in Threads |-> "none"]
    /\ wrote = [t \in Threads |-> 0]
    /\ pre = [t \in Threads |-> Missing]
    /\ prev = [t \in Threads |-> NoCall]
    /\ text \in Documents
    /\ ScanInit
    /\ TagIdle
    /\ FmtIdle

NextScan ==
    \E f \in BOOLEAN :
        \/ LoopBare(f)
        \/ LoopComment(f)
        \/ LoopOther(f)
        \/ LoopEnd(f)

SpecScan == InitScan /\ [][NextScan]_vars

\* update is not running
SyncIdle ==
    /\ disk = Missing
    /\ pc = [t \in Threads |-> "idle"]
    /\ contents = [t \in Threads |-> <<>>]
    /\ mode = [t \in Threads |-> "Overwrite"]
    /\ return_error = [t \in Threads |-> FALSE]
    /\ result = [t \in Threads |-> "none"]
    /\ wrote = [t \in Threads |-> 0]
    /\ pre = [t \in Threads |-> Missing]
    /\ prev = [t \in Threads |-> NoCall]

\* extract_comment_blocks_with_empty_lines(tag, text)
InitTagged ==
    /\ SyncIdle
    /\ FmtIdle
    /\ text \in TaggedDocuments
    /\ lines = TrimmedLines(text)
    /\ scan_pc = [f \in BOOLEAN |-> IF f THEN "loop" ELSE "idle"]
    /\ line_num = [f \in BOOLEAN |-> 0]
    /\ block = [f \in BOOLEAN |-> EmptyBlock]
    /\ res = [f \in BOOLEAN |-> <<>>]
    /\ tag \in Tags
    /\ tag_pc = "assert"
    /\ blk_idx = 0
    /\ tagged_res = <<>>

NextTagged ==
    \/ AssertPass
    \/ AssertFail
    \/ TaggedScan(LoopBare(TRUE))
    \/ TaggedScan(LoopComment(TRUE))
    \/ TaggedScan(LoopOther(TRUE))
    \/ TaggedScan(LoopEnd(TRUE))
    \/ FilterMatch
    \/ FilterSkip
    \/ FilterEnd

SpecTagged == InitTagged /\ [][NextTagged]_vars

\* reformat(text)
InitFormat ==
    /\ SyncIdle
    /\ ScanIdle
    /\ TagIdle
    /\ fmt_text \in FmtTexts
    /\ fmt_pc = "ensure_rustfmt"
    /\ fmt_stdout = <<>>
    /\ fmt_result = NoResult

NextFormat ==
    \/ EnsureRustfmtOk
    \/ EnsureRustfmtFail
    \/ RustfmtOk
    \/ RustfmtFail
    \/ FormatReturn

SpecFormat == InitFormat /\ [][NextFormat]_vars

\* the callers of update do not coordinate: each thread calls update once,
\* and the reads and writes of the calls interleave
CallOnce(t) == pc[t] = "idle" /\ Call(t)

NextConcurrent ==
    \E t \in Threads :
        \/ CallOnce(t)
        \/ ReadUpToDate(t)
        \/ ReadFallThrough(t)
        \/ Write(t)
        \/ WriteFail(t)
        \/ Return(t)

SpecConcurrent == Init /\ [][NextConcurrent]_vars

\* ================================================================ update: properties

\* the current call of Main has returned
Returned == pc[Main] = "done"

\* the first of two calls in succession
first == prev[Main]

\* update has run twice in succession with the same content and has returned
TwiceSame == Returned /\ first.valid /\ first.contents = contents[Main]

\* the file could be read, or there was none: the prior states
\* "missing, equal, or different"
Readable(d) == ~d.exists \/ d.readable

\* the target held a readable file that matches `c` up to line endings
Matches(d, c) == d.exists /\ d.readable /\ normalize(d.bytes) = normalize(c)

\* C1: two calls of update in succession with the same content, on a prior
\* target that is missing, equal or different, and whose write_file did not
\* fail: the second call performs no write and returns Ok; together they
\* perform at most one write, exactly one when the target did not match.
C1_Idempotent ==
    (TwiceSame /\ Readable(first.pre) /\ first.result # "FsError") =>
        /\ wrote[Main] = 0
        /\ result[Main] = "Ok"
        /\ first.wrote + wrote[Main] <= 1
        /\ (first.wrote + wrote[Main] = 1) <=> ~Matches(first.pre, contents[Main])

C1_Witness ==
    /\ TwiceSame /\ first.pre.exists /\ first.pre.readable
    /\ first.wrote = 1 /\ first.mode = "Ensure" /\ mode[Main] = "Overwrite"
    /\ wrote[Main] = 0 /\ result[Main] = "Ok"

\* C2 as stated: after two calls in succession with the same content (no
\* filesystem error), the bytes on disk are the normalized form of the content.
C2_FinalBytesNormalized ==
    (TwiceSame /\ first.result # "FsError" /\ result[Main] # "FsError") =>
        disk.bytes = normalize(contents[Main])

\* C2 amended: after two calls in succession with the same content (no
\* filesystem error), the file exists and its bytes equal the content up to
\* line endings; they are exactly the content (not normalized) when one of the
\* calls wrote, and the untouched prior bytes when none did.
C2_FinalBytesUpToLineEndings ==
    (TwiceSame /\ first.result # "FsError" /\ result[Main] # "FsError") =>
        /\ disk.exists
        /\ normalize(disk.bytes) = normalize(contents[Main])
        /\ (first.wrote + wrote[Main] >= 1) => disk.bytes = contents[Main]
        /\ (first.wrote + wrote[Main] = 0) => disk = first.pre

C2_Witness ==
    /\ TwiceSame /\ first.result # "FsError" /\ result[Main] = "Ok"
    /\ first.wrote = 1
    /\ contents[Main] = <<"\r", "\n">>
    /\ disk.bytes = <<"\r", "\n">>

\* C3: update in Ensure mode on a missing target (whose write_file did not
\* fail) returns the staleness error, and the file then exists and holds
\* exactly the content.
C3_EnsureOnMissing ==
    (Returned /\ mode[Main] = "Ensure" /\ pre[Main] = Missing
              /\ result[Main] # "FsError") =>
        /\ result[Main] = "Stale"
        /\ disk = File(contents[Main], TRUE)

C3_Witness ==
    /\ Returned /\ mode[Main] = "Ensure" /\ pre[Main] = Missing
    /\ result[Main] = "Stale" /\ Len(contents[Main]) = MaxLen

\* C4: in Ensure mode the staleness error is raised only after the content
\* has been written; a readable file that differs is written and reported
\* stale; the call that follows with the same content returns Ok without
\* writing; and (no filesystem error) the result is Ok iff nothing was written.
C4_EnsureConverges ==
    /\ (pc[Main] = "return" /\ return_error[Main]) =>
            (wrote[Main] = 1 /\ disk.bytes = contents[Main])
    /\ result[Main] = "Stale" =>
            (mode[Main] = "Ensure" /\ wrote[Main] = 1 /\ disk.bytes = contents[Main])
    /\ (Returned /\ mode[Main] = "Ensure" /\ result[Main] # "FsError") =>
            /\ (result[Main] = "Ok") <=> (wrote[Main] = 0)
            /\ (pre[Main].exists /\ pre[Main].readable
                   /\ ~Matches(pre[Main], contents[Main])) => result[Main] = "Stale"
    /\ (TwiceSame /\ first.mode = "Ensure" /\ mode[Main] = "Ensure"
                  /\ first.pre.exists /\ first.pre.readable
                  /\ ~Matches(first.pre, contents[Main])
                  /\ first.result # "FsError") =>
            (first.result = "Stale" /\ result[Main] = "Ok" /\ wrote[Main] = 0)

C4_Witness ==
    /\ TwiceSame /\ first.mode = "Ensure" /\ mode[Main] = "Ensure"
    /\ first.pre.exists /\ first.pre.readable
    /\ ~Matches(first.pre, contents[Main])
    /\ first.result = "Stale" /\ first.wrote = 1
    /\ result[Main] = "Ok" /\ wrote[Main] = 0

\* the read of the existing target failed for a reason other than "not found"
ReadFailedOther(d) == read_file(d).err = "Other"

\* C5 as stated: when reading the existing target fails for a reason other
\* than the file not existing, update returns that filesystem error and has
\* performed no write.
C5_ReadErrorPropagates ==
    (Returned /\ ReadFailedOther(pre[Main])) =>
        (result[Main] = "FsError" /\ wrote[Main] = 0 /\ disk = pre[Main])

\* what the amended C5 says of a state
C5_AfterReadError ==
    (pc[Main] \notin {"idle", "read"} /\ ~read_file(pre[Main]).ok) =>
        /\ pc[Main] \in {"write", "return", "done"}
        /\ Returned =>
             \/ result[Main] = "FsError" /\ wrote[Main] = 0
             \/ /\ wrote[Main] = 1
                /\ disk.bytes = contents[Main]
                /\ result[Main] = IF mode[Main] = "Ensure" THEN "Stale" ELSE "Ok"

\* what the amended C5 says of a step taken at the read
C5_ReadErrorStep ==
    (pc[Main] = "read" /\ ~read_file(disk).ok) =>
        (pc'[Main] = "write" /\ result'[Main] = "none" /\ disk' = disk)

\* C5 amended: every failure to read the target, "not found" or not, is
\* treated as "differs": update does not return at the read but goes on to
\* write_file; it returns Ok (Overwrite) or the staleness error (Ensure) after
\* the file holds the content, and a filesystem error only when write_file
\* itself failed.
C5_ReadErrorMeansWrite == []C5_AfterReadError /\ [][C5_ReadErrorStep]_vars

C5_Witness ==
    /\ Returned /\ ReadFailedOther(pre[Main])
    /\ wrote[Main] = 1 /\ result[Main] = "Ok"
    /\ disk.bytes = contents[Main] /\ disk.bytes # pre[Main].bytes

\* C6: when the existing readable file and the content differ, but only in
\* "\r\n" against "\n" (either direction), update performs no write, leaves
\* the file as it was and returns Ok, in both modes.
C6_LineEndingTolerance ==
    (pc[Main] \notin {"idle", "read"}
        /\ Matches(pre[Main], contents[Main])
        /\ pre[Main].bytes # contents[Main]) =>
        (Returned /\ wrote[Main] = 0 /\ disk = pre[Main] /\ result[Main] = "Ok")

C6_Witness ==
    /\ Returned /\ mode[Main] = "Ensure"
    /\ pre[Main] = File(<<"\n">>, TRUE)
    /\ contents[Main] = <<"\r", "\n">>
    /\ disk = pre[Main] /\ result[Main] = "Ok"

\* C7: in Overwrite mode update never returns the staleness error; on a
\* missing target (whose write_file did not fail) it returns Ok and the file
\* then exists and holds exactly the content.
C7_OverwriteNeverStale ==
    /\ (mode[Main] = "Overwrite") => result[Main] # "Stale"
    /\ (Returned /\ mode[Main] = "Overwrite" /\ pre[Main] = Missing
                 /\ result[Main] # "FsError") =>
            (result[Main] = "Ok" /\ disk = File(contents[Main], TRUE))

C7_Witness ==
    /\ Returned /\ mode[Main] = "Overwrite" /\ pre[Main] = Missing
    /\ result[Main] = "Ok" /\ wrote[Main] = 1 /\ Len(contents[Main]) > 0

\* C8: when the existing readable file's normalized contents equal the
\* normalized content, update returns Ok at the read, in both modes: it never
\* reaches write_file and the target is exactly what it was.
C8_NoOpWhenUpToDate ==
    (pc[Main] \notin {"idle", "read"} /\ Matches(pre[Main], contents[Main])) =>
        (Returned /\ result[Main] = "Ok" /\ wrote[Main] = 0 /\ disk = pre[Main])

C8_Witness ==
    /\ Returned /\ Matches(pre[Main], contents[Main])
    /\ pre[Main].bytes = contents[Main] /\ Len(contents[Main]) = MaxLen
    /\ mode[Main] = "Ensure" /\ result[Main] = "Ok" /\ disk = pre[Main]

\* ---------------------------------------------------------------- concurrent calls

AllReturned == \A t \in Threads : pc[t] = "done"

\* the threads whose call wrote the file
Writers == {t \in Threads : wrote[t] = 1}

\* what C18 says of the state after both calls: no writer, the file is what
\* it was at both calls; one writer, the file holds its content; two
\* writers, the file holds the content of one of them
C18_AfterBoth ==
    (AllReturned /\ \A t \in Threads : result[t] # "FsError") =>
        /\ Writers = {} => \A t \in Threads : disk = pre[t]
        /\ \A t \in Threads : Writers = {t} => disk.bytes = contents[t]
        /\ Writers # {} => \E t \in Writers : disk.bytes = contents[t]

\* what C18 says of a step: a write that succeeds leaves its own content in
\* the file whatever the other call has done, and the file changes in no
\* other step than a write
C18_WriteStep ==
    /\ \A t \in Threads :
          (pc[t] = "write" /\ pc'[t] = "return") => disk'.bytes = contents[t]
    /\ disk' # disk => \E t \in Threads : pc[t] = "write" /\ pc'[t] # "write"

\* C18: two calls of update on the same path whose reads and writes
\* interleave: every successful write replaces the file by that call's
\* content and nothing else changes the file, so after both calls the file
\* holds the content of the call that wrote last, and is unchanged if neither
\* wrote. (That a call can have returned Ok while the file ends with the
\* other call's content is the state C18_Witness.)
C18_LastWriterWins == []C18_AfterBoth /\ [][C18_WriteStep]_vars

C18_Witness ==
    /\ AllReturned
    /\ pre["A"] = pre["B"]
    /\ contents["A"] # contents["B"]
    /\ wrote["A"] = 1 /\ wrote["B"] = 1
    /\ result["A"] = "Ok" /\ result["B"] = "Ok"
    /\ disk.bytes = contents["B"]

\* ---------------------------------------------------------------- the two modes

\* C19: what update does to the filesystem depends on the prior target and
\* on the content, not on the mode: it returns at the read exactly when the
\* target matches, otherwise it writes; the bytes it leaves are the prior
\* ones or the content; and the mode shows only in the value returned after
\* a write (Ok for Overwrite, the staleness error for Ensure).
C19_ModeDoesNotReachDisk ==
    /\ pc[Main] \in {"write", "return"} => ~Matches(pre[Main], contents[Main])
    /\ Returned =>
         /\ Matches(pre[Main], contents[Main]) =>
               (wrote[Main] = 0 /\ disk = pre[Main] /\ result[Main] = "Ok")
         /\ ~Matches(pre[Main], contents[Main]) =>
               \/ /\ wrote[Main] = 1
                  /\ disk = [exists |-> TRUE,
                             readable |-> ~pre[Main].exists \/ pre[Main].readable,
                             bytes |-> contents[Main]]
                  /\ result[Main] = IF mode[Main] = "Ensure" THEN "Stale" ELSE "Ok"
               \/ /\ wrote[Main] = 0
                  /\ result[Main] = "FsError"
                  /\ \/ disk = pre[Main]
                     \/ /\ disk.exists
                        /\ Len(disk.bytes) < Len(contents[Main])
                        /\ disk.bytes = SubSeq(contents[Main], 1, Len(disk.bytes))

C19_Witness ==
    /\ Returned /\ first.valid
    /\ first.mode = "Overwrite" /\ mode[Main] = "Ensure"
    /\ first.wrote = 1 /\ wrote[Main] = 1
    /\ first.result = "Ok" /\ result[Main] = "Stale"
    /\ first.post.bytes = first.contents /\ disk.bytes = contents[Main]

\* ================================================================ scanner: properties

\* line i of the document belongs to a block of scan f
IsBlockLine(i, f) == is_comment(lines[i]) \/ IsBare(lines[i], f)

\* the 1-based numbers of the lines that begin a block of scan f: the first
\* line of the document or the line after a line that is not in a block
BlockStarts(f) ==
    SelectSeq([i \in 1..Len(lines) |-> i],
              LAMBDA i : IsBlockLine(i, f) /\ (i = 1 \/ ~IsBlockLine(i - 1, f)))

\* the line numbers recorded in the blocks emitted by scan f
RecordedLines(f) == [k \in 1..Len(res[f]) |-> res[f][k][1]]

ScanDone(f) == scan_pc[f] = "done"

\* C9: when a scan has finished, the line number recorded in each emitted
\* block is the 1-based number of the block's first line in the document,
\* 1 for a block that starts on the first line.
C9_RecordedStartLine ==
    \A f \in BOOLEAN : ScanDone(f) => RecordedLines(f) = BlockStarts(f)

\* what the code records: the number of the line after the last line outside
\* a block, and 0 for a block that starts on the first line
C9_RecordedStartLineOrZero ==
    \A f \in BOOLEAN : ScanDone(f) =>
        /\ Len(res[f]) = Len(BlockStarts(f))
        /\ \A k \in 1..Len(res[f]) :
              res[f][k][1] = IF BlockStarts(f)[k] = 1 THEN 0 ELSE BlockStarts(f)[k]

\* a is a contiguous run of the entries of b
IsInfix(a, b) ==
    \E i \in 0..(Len(b) - Len(a)) : SubSeq(b, i + 1, i + Len(a)) = a

\* the document has a bare marker line
HasBareMarker == \E i \in 1..Len(lines) : lines[i] = BareMarker

BothDone == ScanDone(FALSE) /\ ScanDone(TRUE)

\* C10 as stated: every block emitted by the scan with continuations
\* disabled is also emitted by the scan with continuations enabled (a block
\* taken as its content entries, whatever line is recorded for it).
C10_EnabledIsSuperset ==
    BothDone =>
        \A i \in 1..Len(res[FALSE]) :
            \E j \in 1..Len(res[TRUE]) : res[TRUE][j][2] = res[FALSE][i][2]

\* C10 amended: every block emitted with continuations disabled is contained
\* in a block emitted with continuations enabled, as a contiguous run of its
\* content entries, and that block does not start later; the two results are
\* equal when the document has no bare marker line.
C10_EnabledContainsDisabled ==
    BothDone =>
        /\ \A i \in 1..Len(res[FALSE]) :
              \E j \in 1..Len(res[TRUE]) :
                  /\ IsInfix(res[FALSE][i][2], res[TRUE][j][2])
                  /\ res[TRUE][j][1] <= res[FALSE][i][1]
        /\ ~HasBareMarker => res[TRUE] = res[FALSE]

C10_Witness ==
    /\ BothDone /\ HasBareMarker
    /\ Len(res[FALSE]) = 2
    /\ Len(res[TRUE]) = 1
    /\ Len(res[TRUE][1][2]) = 3
    /\ IsInfix(res[FALSE][2][2], res[TRUE][1][2])

\* C12: every block a scan emits, with either value of the flag, has at
\* least one content entry, and a scan emits exactly one block per run of
\* block lines: consecutive lines outside a block emit nothing. The blocks
\* handed to the tagged parser therefore all have a first line to remove.
C12_BlocksNeverEmpty ==
    \A f \in BOOLEAN :
        /\ \A k \in 1..Len(res[f]) : Len(res[f][k][2]) >= 1
        /\ Len(res[f]) <= Len(BlockStarts(f))
        /\ ScanDone(f) => Len(res[f]) = Len(BlockStarts(f))

C12_Witness ==
    /\ BothDone
    /\ Len(lines) = 3
    /\ ~IsBlockLine(1, TRUE) /\ ~IsBlockLine(2, TRUE) /\ IsBlockLine(3, FALSE)
    /\ Len(res[FALSE]) = 1 /\ Len(res[TRUE]) = 1

\* scan f takes a step over a line that is a bare marker after trimming
BareStep(f) ==
    /\ scan_pc[f] = "loop"
    /\ line_num[f] < Len(lines)
    /\ lines[line_num[f] + 1] = <<"/", "/">>
    /\ line_num'[f] = line_num[f] + 1

\* what C15 says of a step over a bare marker
C15_BareStep ==
    /\ BareStep(TRUE) =>
         /\ block'[TRUE] = <<block[TRUE][1], Append(block[TRUE][2], <<>>)>>
         /\ res'[TRUE] = res[TRUE]
    /\ BareStep(FALSE) =>
         /\ block'[FALSE] = <<line_num[FALSE] + 2, <<>>>>
         /\ res'[FALSE] = IF block[FALSE][2] # <<>>
                          THEN Append(res[FALSE], block[FALSE]) ELSE res[FALSE]

\* C15: with the flag set, a line that is "//" after trimming appends one
\* empty entry to the current block and does not end it; without the flag
\* (as in extract_comment_blocks) it ends the current block, adds no entry
\* and sets the next block's start line to the line after it.
C15_BareMarkerByFlag == [][C15_BareStep]_vars

C15_Witness ==
    /\ BothDone
    /\ lines = << <<"/", "/", " ", "a">>, <<"/", "/">>, <<"/", "/", " ", "b">> >>
    /\ res[TRUE] = << <<0, << <<"a">>, <<>>, <<"b">> >> >> >>
    /\ res[FALSE] = << <<0, << <<"a">> >> >>, <<3, << <<"b">> >> >> >>
    /\ extract_comment_blocks = << << <<"a">> >>, << <<"b">> >> >>

\* the contents of the blocks, one after the other
RECURSIVE ConcatContents(_)
ConcatContents(bs) ==
    IF bs = <<>> THEN <<>> ELSE bs[1][2] \o ConcatContents(Tail(bs))

\* the numbers of the lines that start with "// " after trimming
CommentLineNumbers ==
    SelectSeq([i \in 1..Len(lines) |-> i],
              LAMBDA i : Len(lines[i]) >= 3 /\ SubSeq(lines[i], 1, 3) = <<"/", "/", " ">>)

\* the last line of the run of block lines that begins at line i
RECURSIVE RunEnd(_, _)
RunEnd(i, f) ==
    IF i < Len(lines) /\ IsBlockLine(i + 1, f) THEN RunEnd(i + 1, f) ELSE i

\* C16: with continuations disabled, the contents of the emitted blocks, one
\* after the other, are the contents after "// " of every line that starts
\* with "// ", in document order, each once; block k holds exactly the
\* maximal run of such lines that begins at the k-th block start, so two
\* lines share a block iff no other line lies between them; a block pending
\* at the end of the input is emitted.
C16_MaximalRuns ==
    ScanDone(FALSE) =>
        /\ ConcatContents(res[FALSE]) =
              [n \in 1..Len(CommentLineNumbers) |->
                  SubSeq(lines[CommentLineNumbers[n]], 4,
                         Len(lines[CommentLineNumbers[n]]))]
        /\ Len(res[FALSE]) = Len(BlockStarts(FALSE))
        /\ \A k \in 1..Len(res[FALSE]) :
              LET from == BlockStarts(FALSE)[k] IN
              res[FALSE][k][2] =
                  [n \in 1..(RunEnd(from, FALSE) - from + 1) |->
                      SubSeq(lines[from + n - 1], 4, Len(lines[from + n - 1]))]

C16_Witness ==
    /\ ScanDone(FALSE)
    /\ Len(lines) = 3
    /\ text[Len(text)] # "\n"
    /\ IsBlockLine(1, FALSE) /\ ~IsBlockLine(2, FALSE) /\ IsBlockLine(3, FALSE)
    /\ Len(res[FALSE]) = 2

\* ================================================================ tagged parser: properties

\* the tagged blocks that the first n scanned blocks should give for tag tg:
\* one per block whose first line starts with "tg:", in order
RECURSIVE TaggedOf(_, _, _)
TaggedOf(bs, n, tg) ==
    IF n = 0 THEN <<>>
    ELSE LET b == bs[n]
             fst == b[2][1]
             colon == Len(tg) + 1
         IN IF Len(b[2]) > 0 /\ Len(fst) >= colon
               /\ SubSeq(fst, 1, Len(tg)) = tg /\ fst[colon] = ":"
            THEN Append(TaggedOf(bs, n - 1, tg),
                        [id |-> trim(SubSeq(fst, colon + 1, Len(fst))),
                         line |-> b[1],
                         contents |-> SubSeq(b[2], 2, Len(b[2]))])
            ELSE TaggedOf(bs, n - 1, tg)

\* the text has no whitespace at either end
Trimmed(s) == Len(s) = 0 \/ (~IsWhitespace(s[1]) /\ ~IsWhitespace(s[Len(s)]))

ParserDone == tag_pc = "done"

\* C11: the parser returns a tagged block for a scanned block iff the block's
\* first line starts with "TAG:"; its identifier is the rest of that line with
\* the surrounding whitespace trimmed, its contents are the block's other
\* lines, and a block whose first line does not match contributes nothing. A
\* block beginning "T: i " is captured for tag T with identifier "i" and not
\* captured for tag U.
C11_TagFiltering ==
    /\ tag_pc # "remove_failed"
    /\ tagged_res = TaggedOf(res[TRUE], blk_idx, tag)
    /\ \A j \in 1..Len(tagged_res) : Trimmed(tagged_res[j].id)
    /\ ParserDone =>
         \A k \in 1..Len(res[TRUE]) :
            res[TRUE][k][2][1] = <<"T", ":", " ", "i", " ">> =>
               /\ tag = <<"T">> =>
                    \E j \in 1..Len(tagged_res) :
                       /\ tagged_res[j].id = <<"i">>
                       /\ tagged_res[j].line = res[TRUE][k][1]
                       /\ tagged_res[j].contents = Tail(res[TRUE][k][2])
               /\ tag = <<"U">> =>
                    \A j \in 1..Len(tagged_res) :
                       tagged_res[j].line # res[TRUE][k][1]

C11_Witness ==
    /\ ParserDone /\ tag = <<"T">>
    /\ Len(res[TRUE]) = 2 /\ Len(tagged_res) = 1
    /\ res[TRUE][1][2][1] = <<"U", ":", " ", "i">>
    /\ res[TRUE][2][2][1] = <<"T", ":", " ", "i", " ">>
    /\ tagged_res[1].id = <<"i">>

\* C13: called with a tag that does not start with an uppercase character
\* (the empty tag included), the parser panics at the assert: no line of the
\* document is scanned and no block is returned.
C13_TagPrecondition ==
    ~(Len(tag) > 0 /\ tag[1] \in {"T", "U"}) =>
        /\ tag_pc \in {"assert", "assert_failed"}
        /\ line_num[TRUE] = 0
        /\ block[TRUE] = EmptyBlock
        /\ res[TRUE] = <<>>
        /\ blk_idx = 0
        /\ tagged_res = <<>>

C13_Witness ==
    /\ tag_pc = "assert_failed" /\ tag = <<>>
    /\ Len(lines) = MaxLines
    /\ lines[1] = <<"/", "/", " ", "T", ":", " ", "i", " ">>

\* block k of the scan has the tag on its first line
Carries(k, tg) ==
    /\ Len(res[TRUE][k][2]) > 0
    /\ Len(res[TRUE][k][2][1]) > Len(tg)
    /\ SubSeq(res[TRUE][k][2][1], 1, Len(tg) + 1) = tg \o <<":">>

\* C17: the tagged blocks are returned in document order, their recorded
\* line numbers strictly increasing; every scanned block that carries the tag
\* has its own entry, also when several carry the same identifier.
C17_OrderAndDuplicates ==
    /\ \A j \in 1..(Len(tagged_res) - 1) :
          tagged_res[j].line < tagged_res[j + 1].line
    /\ Len(tagged_res) = Cardinality({k \in 1..blk_idx : Carries(k, tag)})
    /\ \A k \in 1..blk_idx :
          Carries(k, tag) =>
             \E j \in 1..Len(tagged_res) : tagged_res[j].line = res[TRUE][k][1]

C17_Witness ==
    /\ ParserDone
    /\ Len(tagged_res) = 2
    /\ tagged_res[1].id = tagged_res[2].id
    /\ tagged_res[1].contents = tagged_res[2].contents
    /\ tagged_res[1].line < tagged_res[2].line

\* block k of the scan with continuations begins at a bare marker line
LeadingBare(k) == lines[BlockStarts(TRUE)[k]] = <<"/", "/">>

\* C20: with continuations enabled, a bare marker that follows a line outside
\* a block, or starts the document, opens a block whose first entry is the
\* empty string, so a block of bare markers only is emitted; such a block is
\* never captured by the tagged parser, whatever "// TAG: id" line follows
\* the bare marker.
C20_LeadingBareMarker ==
    /\ Len(res[TRUE]) <= Len(BlockStarts(TRUE))
    /\ scan_pc[TRUE] = "done" => Len(res[TRUE]) = Len(BlockStarts(TRUE))
    /\ \A k \in 1..Len(res[TRUE]) :
          LeadingBare(k) =>
             /\ res[TRUE][k][2][1] = <<>>
             /\ \A j \in 1..Len(tagged_res) :
                   tagged_res[j].line # res[TRUE][k][1]

C20_Witness ==
    /\ ParserDone /\ tag = <<"T">>
    /\ lines = << <<"x">>, <<"/", "/">>, <<"/", "/", " ", "T", ":", "i">> >>
    /\ res[TRUE] = << <<2, << <<>>, <<"T", ":", "i">> >> >> >>
    /\ tagged_res = <<>>

\* ================================================================ reformat: properties

FormatDone == fmt_pc = "done"

\* the preamble line with the marker "// " and with the marker "//! "
LineCommentPreamble == <<"/", "/", " ">> \o PREAMBLE
DocCommentPreamble == <<"/", "/", "!", " ">> \o PREAMBLE

\* C14 as stated: when the formatter succeeds the text returned begins with
\* the line "// Generated file, do not edit by hand, see .." followed by a
\* blank line and the formatter's output; when it fails the error is returned
\* and no text.
C14_LineCommentPreamble ==
    FormatDone =>
        IF fmt_result.ok
        THEN starts_with(fmt_result.val,
                         LineCommentPreamble \o <<"\n", "\n">> \o fmt_stdout)
        ELSE fmt_result.val = <<>>

\* C14 amended: when ensure_rustfmt and the formatter succeed the text
\* returned is the line "//! Generated file, do not edit by hand, see
\* `xtask/src/codegen`" (marker "//!"), a blank line, the formatter's output
\* and a final newline; when either fails that error is returned and no text.
C14_DocCommentPreamble ==
    FormatDone =>
        IF fmt_result.ok
        THEN fmt_result.val =
                DocCommentPreamble \o <<"\n", "\n">> \o fmt_stdout \o <<"\n">>
        ELSE /\ fmt_result.err \in {"ensure_rustfmt", "rustfmt"}
             /\ fmt_result.val = <<>>
             /\ fmt_stdout = <<>>

C14_Witness ==
    /\ FormatDone /\ fmt_result.ok
    /\ Len(fmt_stdout) = MaxLen
    /\ fmt_stdout # fmt_text
    /\ fmt_result.val[3] = "!"
====
